---------------------------- MODULE Spec2Model ----------------------------
(***************************************************************************)
(* Model of usbid: the lazy USB topology reader of src/usbid/structure.py  *)
(* (USB / Bus / Port / Interface over a sysfs directory tree) and of the   *)
(* attribute readers of structure.py and device.py.                        *)
(*                                                                         *)
(* A name is a sequence of one-character strings, so that the regular      *)
(* expressions, the slicing and the str.format calls of the source are     *)
(* computed and not assumed.  A path is a sequence of names below the      *)
(* USB root directory (the empty path is the root directory itself).       *)
(***************************************************************************)
EXTENDS Integers, Sequences, FiniteSets, TLC

VARIABLES
    dirs,      \* the directories that exist below the root (a set of paths)
    rev,       \* the order in which os.listdir yields entries (see Listdir)
    last,      \* the last container / interface call and its outcome
    agg,       \* the running aggregated_interfaces() traversal
    attrFile,  \* the state of one attribute file of a node
    attrRead   \* the last attribute read and its outcome

vars == <<dirs, rev, last, agg, attrFile, attrRead>>

-----------------------------------------------------------------------------
(* Bounds of the model *)

\* nesting depth of ports below a bus that the kernel creates
MaxDepth == 2
\* number of directories that exist at the same time
MaxDirs == 5
\* number of plug / unplug events that interleave with one traversal
MaxChanges == 1
\* length of an attribute file's content
MaxLen == 3

-----------------------------------------------------------------------------
(* Characters and strings *)

Digits == {"0", "1", "2", "3", "4", "5", "6", "7", "8", "9"}

IsDigit(c) == c \in Digits

\* str.find(c): 0-based index of the first occurrence, -1 when there is none
Find(s, c) ==
    IF \E i \in 1..Len(s) : s[i] = c
    THEN (CHOOSE i \in 1..Len(s) : s[i] = c /\ \A j \in 1..(i - 1) : s[j] # c) - 1
    ELSE -1

\* str.rfind(c): 0-based index of the last occurrence, -1 when there is none
RFind(s, c) ==
    IF \E i \in 1..Len(s) : s[i] = c
    THEN (CHOOSE i \in 1..Len(s) : s[i] = c /\ \A j \in (i + 1)..Len(s) : s[j] # c) - 1
    ELSE -1

\* s[n:] with a 0-based n >= 0
SliceFrom(s, n) == SubSeq(s, n + 1, Len(s))

\* str.startswith
StartsWith(s, p) == Len(s) >= Len(p) /\ SubSeq(s, 1, Len(p)) = p

RECURSIVE Reverse(_)
Reverse(s) == IF s = <<>> THEN <<>> ELSE Append(Reverse(Tail(s)), Head(s))

RECURSIVE SetToSeq(_)
SetToSeq(S) ==
    IF S = {} THEN <<>>
    ELSE LET x == CHOOSE x \in S : TRUE IN <<x>> \o SetToSeq(S \ {x})

\* Python's "$" without re.MULTILINE matches at the end of the string and
\* just before a newline that ends the string: the strings that have to
\* match the pattern up to the "$"
DollarForms(s) ==
    {s} \cup (IF Len(s) > 0 /\ s[Len(s)] = "\n" THEN {SubSeq(s, 1, Len(s) - 1)} ELSE {})

\* (\.\d)* covering the whole of t
DotDigitRuns(t) ==
    /\ Len(t) % 2 = 0
    /\ \A j \in 1..(Len(t) \div 2) : t[2 * j - 1] = "." /\ IsDigit(t[2 * j])

\* \d-\d at the start of s
DigitDashDigit(s) ==
    Len(s) >= 3 /\ IsDigit(s[1]) /\ s[2] = "-" /\ IsDigit(s[3])

\* IS_BUS = re.compile("^usb\d$")
IS_BUS(s) ==
    \E t \in DollarForms(s) :
        Len(t) = 4 /\ SubSeq(t, 1, 3) = <<"u", "s", "b">> /\ IsDigit(t[4])

\* IS_BUS_PORT = re.compile("^\d-\d$")
IS_BUS_PORT(s) ==
    \E t \in DollarForms(s) : Len(t) = 3 /\ DigitDashDigit(t)

\* IS_SUB_PORT = re.compile("^\d-\d(\.\d)*$")
IS_SUB_PORT(s) ==
    \E t \in DollarForms(s) : DigitDashDigit(t) /\ DotDigitRuns(SubSeq(t, 4, Len(t)))

\* IS_INTERFACE = re.compile("^\d-\d(\.\d)*:\d.\d$"); the unescaped "." is
\* any character but a newline
IS_INTERFACE(s) ==
    \E t \in DollarForms(s) :
        /\ Len(t) >= 7
        /\ DigitDashDigit(t)
        /\ DotDigitRuns(SubSeq(t, 4, Len(t) - 4))
        /\ t[Len(t) - 3] = ":"
        /\ IsDigit(t[Len(t) - 2])
        /\ t[Len(t) - 1] # "\n"
        /\ IsDigit(t[Len(t)])

-----------------------------------------------------------------------------
(* The sysfs tree the kernel can build *)

USB_FS_ROOT == <<>>

BusNums == {<<"1">>}
PortNums == {<<"1">>, <<"2">>, <<"1", "0">>}

UsbName(b) == <<"u", "s", "b">> \o b
BusPortName(b, p) == b \o <<"-">> \o p
SubPortName(n, p) == n \o <<".">> \o p
IfaceName(n) == n \o <<":", "1", ".", "0">>
RootHubName(b) == b \o <<"-", "0">>
TtyDir == <<"t", "t", "y">>
TtyUSB0 == <<"t", "t", "y", "U", "S", "B", "0">>
TtyACM0 == <<"t", "t", "y", "A", "C", "M", "0">>
PowerDir == <<"p", "o", "w", "e", "r">>
UeventFile == <<"u", "e", "v", "e", "n", "t">>

Entry(p, k, d, b) == [path |-> p, kind |-> k, depth |-> d, bus |-> b]

\* the entries the kernel can create directly inside the directory e
KernelChildren(e) ==
    LET here == e.path[Len(e.path)] IN
    CASE e.kind = "bus" ->
            {Entry(Append(e.path, BusPortName(e.bus, p)), "port", 1, e.bus) : p \in PortNums}
            \cup {Entry(Append(e.path, IfaceName(RootHubName(e.bus))), "iface", 0, e.bus),
                  Entry(Append(e.path, PowerDir), "other", 0, e.bus)}
      [] e.kind = "port" ->
            (IF e.depth < MaxDepth
             THEN {Entry(Append(e.path, SubPortName(here, p)), "port", e.depth + 1, e.bus) :
                       p \in PortNums}
             ELSE {})
            \cup {Entry(Append(e.path, IfaceName(here)), "iface", 0, e.bus)}
      [] e.kind = "iface" ->
            {Entry(Append(e.path, TtyDir), "ttydir", 0, e.bus),
             Entry(Append(e.path, TtyUSB0), "ttydev", 0, e.bus)}
      [] e.kind = "ttydir" ->
            {Entry(Append(e.path, TtyACM0), "ttydev", 0, e.bus)}
      [] OTHER -> {}

RECURSIVE Closure(_)
Closure(S) ==
    LET n == S \cup UNION {KernelChildren(e) : e \in S}
    IN IF n = S THEN S ELSE Closure(n)

Universe == Closure({Entry(<<UsbName(b)>>, "bus", 0, b) : b \in BusNums})

UniversePaths == {e.path : e \in Universe}

KindOfPath == [p \in UniversePaths |-> (CHOOSE e \in Universe : e.path = p).kind]

KindOf(p) ==
    IF p = USB_FS_ROOT THEN "root"
    ELSE IF p \in UniversePaths THEN KindOfPath[p]
    ELSE "none"

Parent(p) == SubSeq(p, 1, Len(p) - 1)
IsPrefix(p, q) == Len(p) <= Len(q) /\ SubSeq(q, 1, Len(p)) = p

-----------------------------------------------------------------------------
(* The file system as the program sees it *)

\* os.path.isdir
IsDir(p) == p = USB_FS_ROOT \/ p \in dirs

\* os.path.join(path, name)
Join(p, name) == Append(p, name)

\* the entries of the directory p: its sub-directories, and the uevent
\* attribute file that every device and interface directory holds
EntriesOf(p) ==
    {q[Len(q)] : q \in {d \in dirs : Len(d) = Len(p) + 1 /\ Parent(d) = p}}
    \cup (IF KindOf(p) \in {"bus", "port", "iface"} THEN {UeventFile} ELSE {})

\* os.listdir(p): OSError when p is no directory, else the entries in the
\* order the file system yields them (one of two opposite orders)
Listdir(p) ==
    IF ~IsDir(p) THEN [exc |-> "OSError", val |-> <<>>]
    ELSE LET s == SetToSeq(EntriesOf(p))
         IN [exc |-> "none", val |-> IF rev THEN Reverse(s) ELSE s]

-----------------------------------------------------------------------------
(* Nodes: structure.py *)

None == <<>>

Node(k, n, p) == [kind |-> k, name |-> n, fs_path |-> p]

\* USB.__init__
USB == Node("USB", None, USB_FS_ROOT)

\* FSLocation.fs_name
fs_name(node) == node.fs_path[Len(node.fs_path)]

\* Bus.__init__ / Port.__init__ / Interface.__init__: ValueError when the
\* path is no directory
Construct(k, n, p) ==
    IF ~IsDir(p) THEN [exc |-> "ValueError", val |-> <<>>]
    ELSE [exc |-> "none", val |-> <<Node(k, n, p)>>]

\* USB.__iter__: child[3:]
USB_key(child) == SliceFrom(child, 3)
\* Bus.__iter__: child[child.find('-') + 1:]
Bus_key(child) == SliceFrom(child, Find(child, "-") + 1)
\* the slice of Bus.__iter__ copied into Port.__iter__
Port_keyFromDash(child) == SliceFrom(child, Find(child, "-") + 1)
\* Port.__iter__: child[child.rfind('.') + 1:]
Port_key(child) == SliceFrom(child, RFind(child, ".") + 1)

\* does node.__iter__ yield a key for this entry
IterMatches(node, child) ==
    CASE node.kind = "USB" -> IS_BUS(child)
      [] node.kind = "Bus" -> IS_BUS_PORT(child)
      [] node.kind = "Port" -> IS_SUB_PORT(child)
      [] OTHER -> FALSE

\* the key node.__iter__ yields for a matching entry
IterKey(node, child) ==
    CASE node.kind = "USB" -> USB_key(child)
      [] node.kind = "Bus" -> Bus_key(child)
      [] node.kind = "Port" -> Port_key(child)
      [] OTHER -> child

\* the keys node.__iter__ yields from a listing, in the listing's order
RECURSIVE YieldKeys(_, _)
YieldKeys(node, listing) ==
    IF listing = <<>> THEN <<>>
    ELSE (IF IterMatches(node, Head(listing))
          THEN <<IterKey(node, Head(listing))>> ELSE <<>>)
         \o YieldKeys(node, Tail(listing))

\* list(node.__iter__()): USB.__iter__, Bus.__iter__, Port.__iter__
Iter(node) ==
    LET l == Listdir(node.fs_path)
    IN IF l.exc # "none" THEN l
       ELSE [exc |-> "none", val |-> YieldKeys(node, l.val)]

\* the directory name __getitem__ derives from the node and the key
ChildName(node, key) ==
    CASE node.kind = "USB" -> <<"u", "s", "b">> \o key
      [] node.kind = "Bus" -> node.name \o <<"-">> \o key
      [] node.kind = "Port" -> fs_name(node) \o <<".">> \o key
      [] OTHER -> key

\* the class of the child __getitem__ constructs
ChildKind(node) == IF node.kind = "USB" THEN "Bus" ELSE "Port"

\* the child is looked up in the keys of a listing instead of on disk
GetItemByListing(node, key) ==
    LET path == Join(node.fs_path, ChildName(node, key))
        k == Iter(node)
    IN IF k.exc # "none" \/ ~(\E i \in 1..Len(k.val) : k.val[i] = key)
       THEN [exc |-> "KeyError", val |-> <<>>]
       ELSE Construct(ChildKind(node), key, path)

\* USB.__getitem__, Bus.__getitem__, Port.__getitem__
GetItem(node, key) ==
    LET path == Join(node.fs_path, ChildName(node, key))
    IN IF ~IsDir(path) THEN [exc |-> "KeyError", val |-> <<>>]
       ELSE Construct(ChildKind(node), key, path)

\* InterfaceProvider.interfaces
RECURSIVE MakeInterfaces(_, _)
MakeInterfaces(node, listing) ==
    IF listing = <<>> THEN [exc |-> "none", val |-> <<>>]
    ELSE IF ~IS_INTERFACE(Head(listing)) THEN MakeInterfaces(node, Tail(listing))
    ELSE LET i == Construct("Interface", None, Join(node.fs_path, Head(listing)))
             r == MakeInterfaces(node, Tail(listing))
         IN IF i.exc # "none" THEN i
            ELSE IF r.exc # "none" THEN r
            ELSE [exc |-> "none", val |-> i.val \o r.val]

Interfaces(node) ==
    LET l == Listdir(node.fs_path)
    IN IF l.exc # "none" THEN l ELSE MakeInterfaces(node, l.val)

\* Interface.tty: match_tty.  val is <<name>>, or <<>> for None
RECURSIVE match_tty(_)
RECURSIVE ScanTty(_, _)
ScanTty(path, listing) ==
    IF listing = <<>> THEN [exc |-> "none", val |-> <<>>]
    ELSE IF ~StartsWith(Head(listing), <<"t", "t", "y">>) THEN ScanTty(path, Tail(listing))
    ELSE IF Head(listing) # <<"t", "t", "y">> THEN [exc |-> "none", val |-> <<Head(listing)>>]
    ELSE match_tty(Join(path, Head(listing)))

match_tty(path) ==
    LET l == Listdir(path)
    IN IF l.exc # "none" THEN l ELSE ScanTty(path, l.val)

Tty(iface) == match_tty(iface.fs_path)

\* Container.values: [self[key] for key in self]
RECURSIVE GetItems(_, _)
GetItems(node, keys) ==
    IF keys = <<>> THEN [exc |-> "none", val |-> <<>>]
    ELSE LET c == GetItem(node, Head(keys))
             r == GetItems(node, Tail(keys))
         IN IF c.exc # "none" THEN c
            ELSE IF r.exc # "none" THEN r
            ELSE [exc |-> "none", val |-> c.val \o r.val]

Values(node) ==
    LET k == Iter(node)
    IN IF k.exc # "none" THEN k ELSE GetItems(node, k.val)

\* Container.items: [(key, self[key]) for key in self]
Items(node) ==
    LET k == Iter(node)
        v == Values(node)
    IN IF v.exc # "none" THEN v
       ELSE [exc |-> "none", val |-> [i \in 1..Len(v.val) |-> <<k.val[i], v.val[i]>>]]

-----------------------------------------------------------------------------
(* AggregatedInterfaces.aggregated_interfaces, one file system call at a   *)
(* time.  The traversal keeps a stack of the work that is left:            *)
(*   values   : node.values() is about to list the node's directory        *)
(*   getitems : the list comprehension of values() is fetching self[key]   *)
(*   ifaces   : the loop body is about to read child.interfaces            *)
(*   tty      : the tty filter is about to read iface.tty                  *)

Task(t, node, keys, kids) == [t |-> t, node |-> node, keys |-> keys, kids |-> kids]

AggIdle == [status |-> "idle", tty |-> FALSE, stack |-> <<>>, ifaces |-> <<>>,
            exc |-> "none", changes |-> 0]

\* aggregated_interfaces(self, tty): ifaces = []; aggregate(self, ifaces)
AggStart(node, tty) ==
    [status |-> "running", tty |-> tty, stack |-> <<Task("values", node, <<>>, <<>>)>>,
     ifaces |-> <<>>, exc |-> "none", changes |-> 0]

AggRaise(a, exc) == [a EXCEPT !.status = "error", !.exc = exc, !.stack = <<>>]

AggContinue(a, stack, ifaces) ==
    [a EXCEPT !.stack = stack, !.ifaces = ifaces,
              !.status = IF stack = <<>> THEN "done" ELSE "running"]

\* for child in node.values(): child.interfaces ...; aggregate(child, ifaces)
RECURSIVE LoopBody(_)
LoopBody(kids) ==
    IF kids = <<>> THEN <<>>
    ELSE <<Task("ifaces", Head(kids), <<>>, <<>>), Task("values", Head(kids), <<>>, <<>>)>>
         \o LoopBody(Tail(kids))

RECURSIVE TtyTasks(_)
TtyTasks(is) ==
    IF is = <<>> THEN <<>>
    ELSE <<Task("tty", Head(is), <<>>, <<>>)>> \o TtyTasks(Tail(is))

\* the filter's condition is inverted
SkipIfaceInverted(tty, ttyval) == tty /\ ttyval # <<>>

\* if tty and iface.tty is None: continue
SkipIface(tty, ttyval) == tty /\ ttyval = <<>>

\* the next file system call of the traversal a, and what follows from it
AggStep(a) ==
    LET top == Head(a.stack)
        rest == Tail(a.stack)
    IN CASE top.t = "values" ->
              LET k == Iter(top.node)
              IN IF k.exc # "none" THEN AggRaise(a, k.exc)
                 ELSE IF k.val = <<>> THEN AggContinue(a, rest, a.ifaces)
                 ELSE AggContinue(a, <<Task("getitems", top.node, k.val, <<>>)>> \o rest,
                                  a.ifaces)
         [] top.t = "getitems" ->
              LET c == GetItem(top.node, Head(top.keys))
                  kids == top.kids \o c.val
              IN IF c.exc # "none" THEN AggRaise(a, c.exc)
                 ELSE IF Tail(top.keys) = <<>>
                 THEN AggContinue(a, LoopBody(kids) \o rest, a.ifaces)
                 ELSE AggContinue(a, <<Task("getitems", top.node, Tail(top.keys), kids)>>
                                     \o rest, a.ifaces)
         [] top.t = "ifaces" ->
              LET i == Interfaces(top.node)
              IN IF i.exc # "none" THEN AggRaise(a, i.exc)
                 ELSE IF a.tty THEN AggContinue(a, TtyTasks(i.val) \o rest, a.ifaces)
                 ELSE AggContinue(a, rest, a.ifaces \o i.val)
         [] OTHER ->
              LET t == Tty(top.node)
              IN IF t.exc # "none" THEN AggRaise(a, t.exc)
                 ELSE IF SkipIface(a.tty, t.val) THEN AggContinue(a, rest, a.ifaces)
                 ELSE AggContinue(a, rest, Append(a.ifaces, top.node))

\* the traversal run to its end on a file system that does not change
RECURSIVE AggRun(_)
AggRun(a) == IF a.status # "running" THEN a ELSE AggRun(AggStep(a))

\* node.aggregated_interfaces(tty) as one call
AggregatedInterfaces(node, tty) ==
    LET a == AggRun(AggStart(node, tty))
    IN [exc |-> a.exc, val |-> a.ifaces]

-----------------------------------------------------------------------------
(* Attribute files: FileAttributes (structure.py), DeviceNode (device.py) *)

\* the NUL byte, written as a name: a TLA+ string cannot hold it
NUL == "NUL"

\* the characters str.strip() removes
Whitespace == {" ", "\t", "\n", "\r", "\f", "VT"}

RECURSIVE LStrip(_, _)
LStrip(s, chars) ==
    IF s # <<>> /\ Head(s) \in chars THEN LStrip(Tail(s), chars) ELSE s

RECURSIVE RStrip(_, _)
RStrip(s, chars) ==
    IF s # <<>> /\ s[Len(s)] \in chars THEN RStrip(SubSeq(s, 1, Len(s) - 1), chars) ELSE s

\* str.strip(chars)
StripChars(s, chars) == RStrip(LStrip(s, chars), chars)

\* Bus.__file_attributes__
BusFileAttributes ==
    {"authorized", "authorized_default", "avoid_reset_quirk", "bcdDevice",
     "bConfigurationValue", "bDeviceClass", "bDeviceProtocol", "bDeviceSubClass",
     "bmAttributes", "bMaxPacketSize0", "bMaxPower", "bNumConfigurations",
     "bNumInterfaces", "busnum", "dev", "devnum", "devpath", "idProduct", "idVendor",
     "ltm_capable", "manufacturer", "maxchild", "product", "quirks", "removable",
     "serial", "speed", "uevent", "urbnum", "version"}

\* Port.__file_attributes__
PortFileAttributes == BusFileAttributes \ {"authorized_default"}

\* Interface.__file_attributes__
InterfaceFileAttributes ==
    {"bAlternateSetting", "bInterfaceClass", "bInterfaceNumber", "bInterfaceProtocol",
     "bInterfaceSubClass", "bNumEndpoints", "interface", "modalias",
     "supports_autosuspend", "uevent"}

FileAttributesOf(kind) ==
    CASE kind = "Bus" -> BusFileAttributes
      [] kind = "Port" -> PortFileAttributes
      [] kind = "Interface" -> InterfaceFileAttributes
      [] OTHER -> {}

\* the file <fs_path>/<name>: a readable file with a content, or "missing",
\* "denied" (no permission), "isdir" (a directory), "nodir" (the node's
\* directory is gone)
AttrState(state, content) == [state |-> state, content |-> content]

\* open(path, 'r') and file.read(): IOError unless a readable file is there
OpenRead(f) ==
    IF f.state = "file" THEN [exc |-> "none", val |-> f.content]
    ELSE [exc |-> "IOError", val |-> <<>>]

Result(exc, none, val) == [exc |-> exc, none |-> none, val |-> val]

\* the read without the try / except IOError
GetAttributeUnguarded(kind, name, f) ==
    IF name \in FileAttributesOf(kind)
    THEN LET r == OpenRead(f)
         IN IF r.exc # "none" THEN Result(r.exc, FALSE, <<>>)
            ELSE Result("none", FALSE, StripChars(StripChars(r.val, {"\n"}), Whitespace))
    ELSE Result("AttributeError", FALSE, <<>>)

\* FileAttributes.__getattribute__ for a name that is no Python attribute of
\* the object: file.read().strip('\n').strip(), None on IOError
GetAttribute(kind, name, f) ==
    IF name \in FileAttributesOf(kind)
    THEN LET r == OpenRead(f)
         IN IF r.exc = "IOError" THEN Result("none", TRUE, <<>>)
            ELSE Result("none", FALSE, StripChars(StripChars(r.val, {"\n"}), Whitespace))
    ELSE Result("AttributeError", FALSE, <<>>)

\* DeviceNode.idVendor / DeviceNode.idProduct: fio.read().strip("\n\x00")
DeviceId(f) ==
    LET r == OpenRead(f)
    IN IF r.exc # "none" THEN Result(r.exc, FALSE, <<>>)
       ELSE Result("none", FALSE, StripChars(r.val, {"\n", NUL}))

\* the characters of a content: a value character, a space, a newline, NUL
ContentChars == {"0", " ", "\n", NUL}

RECURSIVE SeqsUpTo(_, _)
SeqsUpTo(S, n) ==
    IF n = 0 THEN {<<>>}
    ELSE LET shorter == SeqsUpTo(S, n - 1)
         IN shorter \cup {Append(s, c) : s \in shorter, c \in S}

\* the content "0403\n\x00"
VendorWithNul == <<"0", "4", "0", "3", "\n", NUL>>

AttrFiles ==
    {AttrState("file", c) : c \in SeqsUpTo(ContentChars, MaxLen) \cup {VendorWithNul}}
    \cup {AttrState(x, <<>>) : x \in {"missing", "denied", "isdir", "nodir"}}

AttrNames == {"idVendor", "bInterfaceClass", "uevent", "fs_tag"}

NoRead == [op |-> "none", kind |-> "none", name |-> "none", exc |-> "none",
           none |-> FALSE, val |-> <<>>]

ReadOutcome(op, kind, name, r) ==
    [op |-> op, kind |-> kind, name |-> name, exc |-> r.exc, none |-> r.none, val |-> r.val]

\* the kernel, or an unplug, changes the attribute file
SetAttrFile(f) ==
    /\ f # attrFile
    /\ attrFile' = f
    /\ attrRead' = NoRead
    /\ UNCHANGED <<dirs, rev, last, agg>>

\* getattr(node, name) on a Bus, Port or Interface
ReadAttribute(kind, name) ==
    /\ attrRead' = ReadOutcome("getattribute", kind, name, GetAttribute(kind, name, attrFile))
    /\ UNCHANGED <<dirs, rev, last, agg, attrFile>>

\* DeviceNode.idVendor, DeviceNode.idProduct
ReadDeviceId(name) ==
    /\ attrRead' = ReadOutcome("deviceid", "DeviceNode", name, DeviceId(attrFile))
    /\ UNCHANGED <<dirs, rev, last, agg, attrFile>>

-----------------------------------------------------------------------------
(* The calls of a client and the changes of the file system *)

\* the keys a client passes to __getitem__: port and bus numbers, and
\* malformed keys (a negative number, a word)
CallKeys == PortNums \cup {<<"-", "1">>, <<"x">>}

\* the key under which the kernel-made directory p is reached from its parent
KeyOfPath(p) ==
    LET n == p[Len(p)]
    IN CASE KindOf(p) = "bus" -> SubSeq(n, 4, Len(n))
         [] KindOf(p) = "port" /\ Len(p) = 2 -> SubSeq(n, Len(p[1]) - 1, Len(n))
         [] KindOf(p) = "port" -> SubSeq(n, Len(p[Len(p) - 1]) + 2, Len(n))
         [] OTHER -> None

\* the nodes a client can have been given
AllContainers ==
    {USB} \cup {Node(IF KindOf(p) = "bus" THEN "Bus" ELSE "Port", KeyOfPath(p), p) :
                    p \in {q \in UniversePaths : KindOf(q) \in {"bus", "port"}}}

AllInterfaces ==
    {Node("Interface", None, p) : p \in {q \in UniversePaths : KindOf(q) = "iface"}}

\* the nodes a client calls on: the root, a node whose directory exists, and
\* a node whose directory is gone from a parent that is still there
Held(h) == h = USB \/ IsDir(Parent(h.fs_path))

ContainerHandles == {h \in AllContainers : Held(h)}
ProviderHandles == {h \in ContainerHandles : h.kind # "USB"}
InterfaceHandles == {h \in AllInterfaces : Held(h)}

NoCall == [op |-> "none", node |-> USB, key |-> None, tty |-> FALSE,
           exc |-> "none", val |-> <<>>]

Outcome(op, node, key, tty, r) ==
    [op |-> op, node |-> node, key |-> key, tty |-> tty, exc |-> r.exc, val |-> r.val]

\* a device, an interface or a tty entry appears
Plug(p) ==
    /\ last.op = "none"
    /\ p \notin dirs
    /\ IsDir(Parent(p))
    /\ Cardinality(dirs) < MaxDirs
    /\ dirs' = dirs \cup {p}
    /\ last' = NoCall
    /\ UNCHANGED <<rev, agg, attrFile, attrRead>>

\* a directory disappears, with everything below it
Unplug(p) ==
    /\ last.op = "none"
    /\ p \in dirs
    /\ dirs' = {q \in dirs : ~IsPrefix(p, q)}
    /\ last' = NoCall
    /\ UNCHANGED <<rev, agg, attrFile, attrRead>>

\* the file system yields its directory entries in the other order
Reorder ==
    /\ last.op = "none"
    /\ rev' = ~rev
    /\ last' = NoCall
    /\ UNCHANGED <<dirs, agg, attrFile, attrRead>>

\* the client makes a call and records its outcome
Call(outcome) ==
    /\ last.op = "none"
    /\ last' = outcome
    /\ UNCHANGED <<dirs, rev, agg, attrFile, attrRead>>

\* Container.keys
CallKeysOf(node) ==
    /\ Call(Outcome("keys", node, None, FALSE, Iter(node)))

\* node[key]
CallGetItem(node, key) ==
    /\ Call(Outcome("getitem", node, key, FALSE, GetItem(node, key)))

\* Container.values
CallValues(node) ==
    /\ Call(Outcome("values", node, None, FALSE, Values(node)))

\* Container.items
CallItems(node) ==
    /\ Call(Outcome("items", node, None, FALSE, Items(node)))

\* InterfaceProvider.interfaces
CallInterfaces(node) ==
    /\ Call(Outcome("interfaces", node, None, FALSE, Interfaces(node)))

\* Interface.tty
CallTty(iface) ==
    /\ Call(Outcome("tty", iface, None, FALSE, Tty(iface)))

\* USB.aggregated_interfaces(tty)
CallAggregate(tty) ==
    /\ Call(Outcome("aggregate", USB, None, tty, AggregatedInterfaces(USB, tty)))

\* the client is done with the outcome
Return ==
    /\ last.op # "none"
    /\ last' = NoCall
    /\ UNCHANGED <<dirs, rev, agg, attrFile, attrRead>>

Init ==
    /\ dirs = {}
    /\ rev = FALSE
    /\ last = NoCall
    /\ agg = AggIdle
    /\ attrFile = AttrState("missing", <<>>)
    /\ attrRead = NoRead

\* The file system changes and the client calls between two outcomes: a
\* change while the client still looks at an outcome is the change after
\* Return.  Between(S) is S then, and empty while an outcome is looked at.
Between(S) == IF last.op = "none" THEN S ELSE {}

Next ==
    \/ \E p \in Between(UniversePaths \ dirs) : Plug(p)
    \/ \E p \in Between(dirs) : Unplug(p)
    \/ Reorder
    \/ \E n \in Between(ContainerHandles) : CallKeysOf(n)
    \/ \E n \in Between(ContainerHandles), k \in CallKeys : CallGetItem(n, k)
    \/ \E n \in Between(ContainerHandles) : CallValues(n)
    \/ \E n \in Between(ContainerHandles) : CallItems(n)
    \/ \E n \in Between(ProviderHandles) : CallInterfaces(n)
    \/ \E i \in Between(InterfaceHandles) : CallTty(i)
    \/ \E t \in Between(BOOLEAN) : CallAggregate(t)
    \/ Return

Spec == Init /\ [][Next]_vars

NextAttr ==
    \/ \E f \in AttrFiles : SetAttrFile(f)
    \/ \E k \in {"Bus", "Port", "Interface"}, n \in AttrNames : ReadAttribute(k, n)
    \/ \E n \in {"idVendor", "idProduct"} : ReadDeviceId(n)

SpecAttr == Init /\ [][NextAttr]_vars

\* a device appears while no traversal runs
RacePlug(p) ==
    /\ agg.status = "idle"
    /\ p \notin dirs
    /\ IsDir(Parent(p))
    /\ Cardinality(dirs) < MaxDirs
    /\ dirs' = dirs \cup {p}
    /\ UNCHANGED <<rev, last, agg, attrFile, attrRead>>

\* a directory disappears, with everything below it, also under a traversal
RaceUnplug(p) ==
    /\ agg.status \in {"idle", "running"}
    /\ agg.status = "running" => agg.changes < MaxChanges
    /\ p \in dirs
    /\ dirs' = {q \in dirs : ~IsPrefix(p, q)}
    /\ agg' = IF agg.status = "running" THEN [agg EXCEPT !.changes = @ + 1] ELSE agg
    /\ UNCHANGED <<rev, last, attrFile, attrRead>>

\* USB.aggregated_interfaces(tty) is called
AggBegin(tty) ==
    /\ agg.status = "idle"
    /\ agg' = AggStart(USB, tty)
    /\ UNCHANGED <<dirs, rev, last, attrFile, attrRead>>

\* the traversal makes its next file system call
AggAdvance ==
    /\ agg.status = "running"
    /\ agg' = AggStep(agg)
    /\ UNCHANGED <<dirs, rev, last, attrFile, attrRead>>

\* the caller has the list, or the exception
AggEnd ==
    /\ agg.status \in {"done", "error"}
    /\ agg' = AggIdle
    /\ UNCHANGED <<dirs, rev, last, attrFile, attrRead>>

NextRace ==
    \/ \E p \in UniversePaths : RacePlug(p)
    \/ \E p \in UniversePaths : RaceUnplug(p)
    \/ \E t \in BOOLEAN : AggBegin(t)
    \/ AggAdvance
    \/ AggEnd

SpecRace == Init /\ [][NextRace]_vars


-----------------------------------------------------------------------------
(* What the specification says of names: digit runs of any length *)

Range(s) == {s[i] : i \in 1..Len(s)}

IsDigitRun(s) == Len(s) > 0 /\ \A i \in 1..Len(s) : IsDigit(s[i])

\* the bus number of the node, read from the usb<N> directory on its path
BusNumberOf(node) == SubSeq(node.fs_path[1], 4, Len(node.fs_path[1]))

\* the generation rule: usb<k>, <bus>-<k>, <parentName>.<k>
RuleName(node, key) ==
    CASE node.kind = "USB" -> <<"u", "s", "b">> \o key
      [] node.kind = "Bus" -> BusNumberOf(node) \o <<"-">> \o key
      [] OTHER -> node.fs_path[Len(node.fs_path)] \o <<".">> \o key

\* the keys of the entries that are children of the node by the rule
RuleKeys(node) ==
    LET prefix == RuleName(node, <<>>)
    IN {SliceFrom(e, Len(prefix)) :
            e \in {x \in EntriesOf(node.fs_path) :
                       StartsWith(x, prefix) /\ IsDigitRun(SliceFrom(x, Len(prefix)))}}

\* the numbers between the delimiters "-" and "." of a device name
RECURSIVE Segments(_)
Segments(n) ==
    IF \A i \in 1..Len(n) : n[i] \notin {"-", "."} THEN <<n>>
    ELSE LET i == CHOOSE i \in 1..Len(n) :
                      n[i] \in {"-", "."} /\ \A j \in 1..(i - 1) : n[j] \notin {"-", "."}
         IN <<SubSeq(n, 1, i - 1)>> \o Segments(SubSeq(n, i + 1, Len(n)))

\* the entries of a listing that node.__iter__ turns into keys, in order
RECURSIVE Enumerated(_, _)
Enumerated(node, listing) ==
    IF listing = <<>> THEN <<>>
    ELSE (IF IterMatches(node, Head(listing)) THEN <<Head(listing)>> ELSE <<>>)
         \o Enumerated(node, Tail(listing))

-----------------------------------------------------------------------------
(* Claims about the container calls *)

\* C1: node[k] on a Root, Bus or Port returns the child exactly when the
\* directory named by the generation rule exists as a directory at the
\* moment of the call, and raises KeyError otherwise, whatever was plugged,
\* unplugged, enumerated or fetched before.
C1_GetChildFollowsDisk ==
    last.op = "getitem" =>
        LET target == Join(last.node.fs_path, RuleName(last.node, last.key))
        IN IF target \in dirs
           THEN last.exc = "none" /\ Len(last.val) = 1 /\ last.val[1].fs_path = target
           ELSE last.exc = "KeyError"

\* a Port returns a nested port that the listing of Port.__iter__ never
\* yields a key for (a port number of two digits)
C1_Witness ==
    /\ last.op = "getitem"
    /\ last.node.kind = "Port"
    /\ last.key = <<"1", "0">>
    /\ last.exc = "none"

\* C2: a malformed key (negative, or not a number) given to node[k] is
\* answered with InvalidAddress, an outcome other than the KeyError of a
\* well-formed key without a directory.
C2_MalformedKeyIsInvalidAddress ==
    (last.op = "getitem" /\ ~IsDigitRun(last.key)) => last.exc = "InvalidAddress"

\* C3: keys() of a Bus b yields p exactly for the entries named <b>-<p>, and
\* keys() of a Port named P yields q exactly for the entries named P.<q>,
\* b, p and q being digit runs of any length.
C3_KeysAreTheRuleChildren ==
    (last.op = "keys" /\ last.node.kind \in {"Bus", "Port"} /\ last.exc = "none") =>
        Range(last.val) = RuleKeys(last.node)

-----------------------------------------------------------------------------
(* Claims about the interfaces *)

\* the interface directories below the root: one per interface of a bus or port
InterfaceDirs == {p \in dirs : KindOf(p) = "iface"}

HasTty(iface) == Tty(iface).val # <<>>

RECURSIVE WithTty(_)
WithTty(is) ==
    IF is = <<>> THEN <<>>
    ELSE (IF HasTty(Head(is)) THEN <<Head(is)>> ELSE <<>>) \o WithTty(Tail(is))

\* C6: on an unchanged file system aggregated_interfaces(tty=True) returns
\* the interfaces of aggregated_interfaces(tty=False) that have a tty, in
\* the same order, and nothing else; without any interface both are empty.
C6_TtyOnlyIsTheFilter ==
    last.op = "aggregate" =>
        LET all == AggregatedInterfaces(USB, FALSE)
        IN /\ last.exc = "none"
           /\ all.exc = "none"
           /\ last.tty => last.val = WithTty(all.val)
           /\ last.tty => \A i \in 1..Len(last.val) : HasTty(last.val[i])
           /\ ~last.tty => last.val = all.val
           /\ InterfaceDirs = {} => last.val = <<>>

\* the filter kept one interface and dropped another
C6_Witness ==
    /\ last.op = "aggregate"
    /\ last.tty
    /\ Len(last.val) >= 1
    /\ Len(AggregatedInterfaces(USB, FALSE).val) > Len(last.val)

\* the serial-device entries of an interface directory: the entries that
\* start with tty and are not tty itself, directly or inside the tty directory
SerialEntries(p) ==
    {n \in EntriesOf(p) \cup (IF IsDir(Join(p, TtyDir)) THEN EntriesOf(Join(p, TtyDir)) ELSE {}) :
         StartsWith(n, TtyDir) /\ n # TtyDir}

\* C9: Interface.tty is present exactly when the interface directory holds a
\* serial-device entry, directly or inside a tty directory, in whatever
\* order the listing comes; it is that entry's name, and never an error.
C9_TtyFoundInAnyOrder ==
    (last.op = "tty" /\ IsDir(last.node.fs_path)) =>
        /\ last.exc = "none"
        /\ last.val # <<>> <=> SerialEntries(last.node.fs_path) # {}
        /\ last.val # <<>> => last.val[1] \in SerialEntries(last.node.fs_path)

\* C10: on an unchanged file system aggregated_interfaces() returns one
\* Interface for each interface directory of each bus and port below the
\* root, those of a node before those of its descendants.
C10_EveryInterfaceOnce ==
    (last.op = "aggregate" /\ ~last.tty) =>
        /\ last.exc = "none"
        /\ {last.val[i].fs_path : i \in 1..Len(last.val)} = InterfaceDirs
        /\ \A i, j \in 1..Len(last.val) :
               /\ i # j => last.val[i].fs_path # last.val[j].fs_path
               /\ (/\ Parent(last.val[i].fs_path) # Parent(last.val[j].fs_path)
                   /\ IsPrefix(Parent(last.val[i].fs_path), Parent(last.val[j].fs_path)))
                  => i < j

-----------------------------------------------------------------------------
(* Claims about a traversal under device removal *)

\* C5: aggregated_interfaces never ends in an exception when a directory
\* disappears between the listing that enumerated it and a later step of the
\* traversal; the vanished child is skipped.
C5_RemovalNeverAborts == agg.status # "error"

-----------------------------------------------------------------------------
(* Claims about attribute reads *)

Cleaned(c) == StripChars(RStrip(c, {"\n", NUL}), Whitespace)

\* C8: a successful read of a recognized attribute returns the content with
\* trailing newlines and NUL bytes removed and surrounding whitespace
\* trimmed; "0403\n\x00" reads as "0403".
C8_ReadIsCleaned ==
    (/\ attrRead.op = "getattribute"
     /\ attrRead.name \in FileAttributesOf(attrRead.kind)
     /\ attrFile.state = "file") =>
        /\ ~attrRead.none
        /\ attrRead.val = Cleaned(attrFile.content)

=============================================================================
